---- MODULE Spec2Model ----
(***************************************************************************)
(* BLE GAP connection / advertising manager (firmware/targets/f7/bl_igloo/ *)
(* gap.c): the worker thread gap_app, the controller event translator      *)
(* SVCCTL_App_Notification, the advertising timer, the command queue and   *)
(* the public API, as one state machine.                                   *)
(***************************************************************************)
EXTENDS Integers, Sequences, FiniteSets, TLC

(* ------------------------------------------------------------------ *)
(* GapState (gap.h), ordered so that "> Idle" is advertising/connected *)
(* ------------------------------------------------------------------ *)
GapStateUninitialized == 0
GapStateIdle == 1
GapStateStartingAdv == 2
GapStateAdvFast == 3
GapStateAdvLowPower == 4
GapStateConnected == 5

GapStates == GapStateUninitialized..GapStateConnected

(* GapCommand, the values carried by the command queue *)
GapCommandAdvFast == 0
GapCommandAdvLowPower == 1
GapCommandAdvStop == 2
GapCommandKillThread == 3

GapCommands == GapCommandAdvFast..GapCommandKillThread

(* furry_message_queue_alloc(8, sizeof(GapCommand)) *)
QueueCapacity == 8

(* gap->service.connection_handle = 0xFFFF at init *)
NoConnectionHandle == 65535

(* conn_rssi = 127 / time_rssi_sample = 0 at init *)
RssiUnknown == 127

(* ------------------------------------------------------------------ *)
(* Bounds of the model                                                 *)
(* ------------------------------------------------------------------ *)
(* producers post only while fewer than MaxPending commands wait *)
MaxPending == 2
(* the controller hands out connection handles 1..MaxHandle *)
MaxHandle == 1
(* commands numbered by the FIFO specification *)
MaxTickets == 5
(* furry_get_tick returns 1..MaxTick in the RSSI specification *)
MaxTick == 2
(* the MTU specification reports the MTUs 0..MaxSmallMtu, 23 and 65535 *)
MaxSmallMtu == 4

(* GapConfig.conn_param: the accepted connection interval range *)
ConnIntMin == 6
ConnIntMax == 8

Handles == 1..MaxHandle

VARIABLES
    gap,                \* gap != NULL
    state,              \* gap->state
    connection_handle,  \* gap->service.connection_handle
    conn_rssi,          \* gap->conn_rssi
    time_rssi_sample,   \* gap->time_rssi_sample
    connection_params,  \* gap->connection_params
    enable_adv,         \* gap->enable_adv
    on_event_cb,        \* gap->on_event_cb has been set
    state_mutex,        \* "null" | "free" | owner | "freed"
    advertise_timer,    \* "null" | "stopped" | "armed"
    command_queue,      \* the queued <<command, ticket>> pairs
    queue_st,           \* "null" | "alloc" | "freed"
    thread,             \* position of gap_app: "null" | "get" | "acquire" | "cs" | "exited"
    command,            \* gap_app's local variable, <<command, ticket>>
    app_pc,             \* position of the application thread inside the API
    evt_pc,             \* position of the controller event context
    fault,              \* "none", or why the system has crashed
    tickets,            \* next ticket to hand out (0: commands are not numbered)
    served,             \* ticket of the command the worker dequeued last
    kill_seen,          \* -1 | the GapState in which the worker dequeued KillThread
    init_failed,        \* the last gap_init returned false
    controller,         \* the controller: discoverable or not, its link's handle
    inputs,             \* the values the environment draws its inputs from (fixed)
    last                \* what the last step did: op, state before, events, controller calls

vars == <<gap, state, connection_handle, connection_params, conn_rssi, time_rssi_sample,
          enable_adv, on_event_cb, state_mutex, advertise_timer, command_queue,
          queue_st, thread, command, app_pc, evt_pc, fault, tickets,
          served, kill_seen, init_failed, controller, inputs, last>>

(* the fields of Gap guarded by state_mutex *)
gapFields == <<state, connection_handle, connection_params, conn_rssi, time_rssi_sample>>
ghost == <<tickets, served, kill_seen>>
fixed == <<inputs, init_failed, controller>>

(* a failed furry_check, or undefined behaviour that ends in a crash, halts the system *)
halted == fault # "none"

(* ------------------------------------------------------------------ *)
(* Outputs of a step: events given to on_event_cb, controller calls    *)
(* ------------------------------------------------------------------ *)
Ev(type, payload) == <<type, payload>>
Ctl(name, args) == <<name, args>>

(* what an operation returns: nothing, or one value *)
NoRet == {}
Ret(v) == {v}
NoArg == [type |-> "-", handle |-> 0, value |-> 0]
(* op with the state and connection handle it started from, the controller *)
(* event it handled, the events it delivered, its controller calls, its result *)
Did(op, ev, ctl, ret) ==
    [op |-> op, arg |-> NoArg,
     pre |-> [state |-> state, handle |-> connection_handle,
              timer |-> advertise_timer],
     ev |-> ev, ctl |-> ctl, ret |-> ret, answer |-> {}, status |-> {}]
(* a step that delivers nothing, calls nothing and returns nothing *)
Quiet ==
    [op |-> "-", arg |-> NoArg,
     pre |-> [state |-> GapStateUninitialized, handle |-> NoConnectionHandle,
              timer |-> "null"],
     ev |-> <<>>, ctl |-> <<>>, ret |-> NoRet, answer |-> {}, status |-> {}]

EventTypes(l) == {l.ev[i][1] : i \in 1..Len(l.ev)}
CtlNames(l) == {l.ctl[i][1] : i \in 1..Len(l.ctl)}

(* ------------------------------------------------------------------ *)
(* furry primitives (mutex, timer, message queue)                      *)
(* ------------------------------------------------------------------ *)
(* furry_mutex_acquire(m, FurryWaitForever) returns once m is free *)
MutexAcquirable(m) == m = "free"

(* furry_timer_stop: a pending expiry is cancelled *)
furry_timer_stop(t) == IF t = "armed" THEN "stopped" ELSE t

(* furry_timer_start: (re)arms the single-shot timer *)
furry_timer_start(t) == "armed"

(* furry_message_queue_put with timeout 0 succeeds iff there is room *)
QueueHasRoom(q) == Len(q) < QueueCapacity

(* model bound on the producers: the worker is at most inputs.pending behind *)
WithinPending(q) == Len(q) < inputs.pending
(* the same for gap_stop_advertising, which a caller may repeat at will *)
StopWithinPending(q) == Len(q) < inputs.pending_stop

(* the ticket a newly queued command gets, and the counter after it *)
Ticket(n) == n
NextTicket(n) == IF n = 0 THEN 0 ELSE n + 1
TicketsLeft(n) == n <= MaxTickets

furry_message_queue_put(q, c, n) == Append(q, <<c, Ticket(n)>>)

(* ------------------------------------------------------------------ *)
(* gap_advertise_start / gap_advertise_stop: what they do in state s    *)
(* ------------------------------------------------------------------ *)
AdvIntervals(new_state) ==
    IF new_state = GapStateAdvFast THEN <<128, 160>> ELSE <<1600, 4000>>

(* gap_advertise_start without the final furry_timer_start *)
gap_advertise_start_no_timer(new_state, s, t) ==
    [state |-> new_state, timer |-> furry_timer_stop(t),
     ctl |-> <<Ctl("aci_gap_set_discoverable", AdvIntervals(new_state))>>,
     ev |-> <<Ev("StartAdvertising", 0)>>]

(* the controller's status is only logged: it changes nothing below *)
gap_advertise_start(new_state, s, t) ==
    [state |-> new_state,
     timer |-> furry_timer_start(furry_timer_stop(t)),
     ctl   |-> (IF new_state = GapStateAdvLowPower
                   /\ (s = GapStateAdvFast \/ s = GapStateAdvLowPower)
                THEN <<Ctl("aci_gap_set_non_discoverable", <<>>)>>
                ELSE <<>>)
               \o <<Ctl("aci_gap_set_discoverable", AdvIntervals(new_state))>>,
     ev    |-> <<Ev("StartAdvertising", 0)>>]

(* gap_advertise_stop without the assignment gap->state = GapStateIdle *)
gap_advertise_stop_keeps_state(s, h, t) ==
    [state |-> s, timer |-> furry_timer_stop(t),
     ctl |-> <<Ctl("aci_gap_set_non_discoverable", <<>>)>>,
     ev |-> <<Ev("StopAdvertising", 0)>>]

(* gap_advertise_stop stopping the timer and advertising in every state *)
gap_advertise_stop_always(s, h, t) ==
    [state |-> GapStateIdle,
     timer |-> furry_timer_stop(t),
     ctl   |-> (IF s = GapStateConnected
                THEN <<Ctl("aci_gap_terminate", <<h, 19>>)>>
                ELSE <<>>)
               \o <<Ctl("aci_gap_set_non_discoverable", <<>>)>>,
     ev    |-> <<Ev("StopAdvertising", 0)>>]

gap_advertise_stop(s, h, t) ==
    IF s > GapStateIdle
    THEN [state |-> GapStateIdle,
          timer |-> furry_timer_stop(t),
          ctl   |-> (IF s = GapStateConnected
                     THEN <<Ctl("aci_gap_terminate", <<h, 19>>)>>
                     ELSE <<>>)
                    \o <<Ctl("aci_gap_set_non_discoverable", <<>>)>>,
          ev    |-> <<Ev("StopAdvertising", 0)>>]
    ELSE [state |-> s, timer |-> t, ctl |-> <<>>,
          ev    |-> <<Ev("StopAdvertising", 0)>>]

(* ------------------------------------------------------------------ *)
(* The controller, as far as the events it reports depend on it        *)
(* ------------------------------------------------------------------ *)
NoLink == NoConnectionHandle
ControllerReset == [adv |-> FALSE, link |-> NoLink]

(* the controller after the program's calls: discoverable after *)
(* aci_gap_set_discoverable, not after aci_gap_set_non_discoverable alone *)
AfterCalls(c, ctl) ==
    LET names == {ctl[i][1] : i \in 1..Len(ctl)}
    IN IF ~inputs.conforming THEN c
       ELSE IF "aci_gap_set_discoverable" \in names THEN [c EXCEPT !.adv = TRUE]
       ELSE IF "aci_gap_set_non_discoverable" \in names THEN [c EXCEPT !.adv = FALSE]
       ELSE c

(* a conforming controller reports a connection only while discoverable and *)
(* without a link, a disconnection of its link only, and link events only *)
(* while the link is up, and the disconnection of a link the program never *)
(* recorded (inputs.foreign); otherwise any event may be reported at any time *)
Reportable(e, c) ==
    \/ ~inputs.conforming
    \/ e.type = "other"
    \/ e.type = "conn_complete" /\ c.adv /\ c.link = NoLink
    \/ e.type = "disconn_complete" /\ c.link = e.handle
    \/ e.type = "disconn_complete" /\ e.handle \in inputs.foreign
    \/ e.type \notin {"other", "conn_complete", "disconn_complete"} /\ c.link # NoLink

(* the controller after reporting e: a connection ends advertising *)
AfterEvent(e, c) ==
    IF ~inputs.conforming THEN c
    ELSE IF e.type = "conn_complete" THEN [adv |-> FALSE, link |-> e.handle]
    ELSE IF e.type = "disconn_complete" THEN [c EXCEPT !.link = NoLink]
    ELSE c

(* GapConnectionParams before any connection event has written it *)
NoParams == [conn_interval |-> 0, slave_latency |-> 0, supervisor_timeout |-> 0]

(* ------------------------------------------------------------------ *)
(* Initial state: nothing allocated, gap == NULL                       *)
(* ------------------------------------------------------------------ *)
InitCommon ==
    /\ gap = FALSE
    /\ state = GapStateUninitialized
    /\ connection_handle = NoConnectionHandle
    /\ connection_params = NoParams
    /\ conn_rssi = RssiUnknown
    /\ time_rssi_sample = 0
    /\ enable_adv = FALSE
    /\ on_event_cb = FALSE
    /\ state_mutex = "null"
    /\ advertise_timer = "null"
    /\ command_queue = <<>>
    /\ queue_st = "null"
    /\ thread = "null"
    /\ command = <<GapCommandAdvFast, 0>>
    /\ app_pc = "idle"
    /\ evt_pc = "idle"
    /\ fault = "none"
    /\ served = 0
    /\ kill_seen = -1
    /\ init_failed = FALSE
    /\ controller = ControllerReset
    /\ last = Quiet

(* inputs of the concurrency specification: one value of each payload that *)
(* the state machine does not branch on, both sides of each branch it takes *)
BaseInputs ==
    [handles   |-> Handles,
     foreign   |-> {},
     intervals |-> {ConnIntMin - 1, ConnIntMin},
     latencies |-> {0},
     timeouts  |-> {72},
     raw_rssi  |-> {196},
     ticks     |-> {1},
     rands     |-> {123456},
     mtus      |-> {23},
     statuses  |-> {0, 1},
     conforming |-> FALSE,
     configs   |-> {[pairing_method |-> "GapPairingPinCodeVerifyYesNo",
                     bonding_mode |-> TRUE]},
     cfg_mitm  |-> 1,
     cfg_fixed_pin |-> 0,
     pending   |-> MaxPending,
     pending_stop |-> MaxPending,
     events    |-> {"disconn_complete", "conn_update_complete",
                    "phy_update_complete", "conn_complete", "pass_key_request",
                    "att_exchange_mtu_resp", "bond_lost",
                    "numeric_comparison_value", "pairing_complete", "other"}]

Init == InitCommon /\ tickets = 0 /\ inputs = BaseInputs

(* the same program driven by a conforming controller *)
InitController ==
    InitCommon /\ tickets = 0 /\ inputs = [BaseInputs EXCEPT !.conforming = TRUE]

(* ------------------------------------------------------------------ *)
(* gap_app: the worker thread                                          *)
(* ------------------------------------------------------------------ *)
(* the command furry_message_queue_get hands to the worker *)
QueueFront(q) == Head(q)
QueueRest(q) == Tail(q)

(* the worker reading the front command without removing it *)
gap_app_get_peek ==
    /\ ~halted
    /\ thread = "get"
    /\ queue_st = "alloc"
    /\ command_queue # <<>>
    /\ command' = QueueFront(command_queue)
    /\ thread' = "acquire"
    /\ served' = QueueFront(command_queue)[2]
    /\ kill_seen' = IF QueueFront(command_queue)[1] = GapCommandKillThread
                    THEN state ELSE kill_seen
    /\ last' = Quiet
    /\ UNCHANGED <<gap, gapFields, enable_adv, on_event_cb, state_mutex,
                   advertise_timer, command_queue, queue_st, app_pc, evt_pc,
                   fault, tickets, fixed>>

gap_app_get ==
    /\ ~halted
    /\ thread = "get"
    /\ queue_st = "alloc"
    /\ command_queue # <<>>
    /\ command' = QueueFront(command_queue)
    /\ command_queue' = QueueRest(command_queue)
    /\ thread' = "acquire"
    /\ served' = QueueFront(command_queue)[2]
    /\ kill_seen' = IF QueueFront(command_queue)[1] = GapCommandKillThread
                    THEN state ELSE kill_seen
    /\ last' = Quiet
    /\ UNCHANGED <<gap, gapFields, enable_adv, on_event_cb, state_mutex,
                   advertise_timer, queue_st, app_pc, evt_pc, fault, tickets, fixed>>

(* the thread was started before command_queue was allocated: the get reads *)
(* an uninitialized pointer; it either fails (and the loop retries) or crashes *)
gap_app_get_unallocated ==
    /\ ~halted
    /\ thread = "get"
    /\ queue_st = "null"
    /\ \E crash \in BOOLEAN : fault' = IF crash THEN "queue_unallocated" ELSE "none"
    /\ last' = Did("gap_app_get_unallocated", <<>>, <<>>, NoRet)
    /\ UNCHANGED <<gap, gapFields, enable_adv, on_event_cb, state_mutex,
                   advertise_timer, command_queue, queue_st, thread, command,
                   app_pc, evt_pc, ghost, fixed>>

(* the worker entering its section without waiting for the mutex *)
gap_app_acquire_no_wait ==
    /\ ~halted
    /\ thread = "acquire"
    /\ thread' = "cs"
    /\ last' = Quiet
    /\ UNCHANGED <<gap, gapFields, enable_adv, on_event_cb, state_mutex,
                   advertise_timer, command_queue, queue_st, command, app_pc,
                   evt_pc, fault, ghost, fixed>>

gap_app_acquire ==
    /\ ~halted
    /\ thread = "acquire"
    /\ MutexAcquirable(state_mutex)
    /\ state_mutex' = "worker"
    /\ thread' = "cs"
    /\ last' = Quiet
    /\ UNCHANGED <<gap, gapFields, enable_adv, on_event_cb, advertise_timer,
                   command_queue, queue_st, command, app_pc, evt_pc, fault, ghost, fixed>>

(* what the worker does with a dequeued command other than KillThread *)
gap_app_dispatch(c, s, h, t) ==
    IF c = GapCommandAdvFast THEN gap_advertise_start(GapStateAdvFast, s, t)
    ELSE IF c = GapCommandAdvLowPower THEN gap_advertise_start(GapStateAdvLowPower, s, t)
    ELSE gap_advertise_stop(s, h, t)

CommandName(c) ==
    IF c = GapCommandAdvFast THEN "AdvFast"
    ELSE IF c = GapCommandAdvLowPower THEN "AdvLowPower"
    ELSE IF c = GapCommandAdvStop THEN "AdvStop"
    ELSE "KillThread"

(* KillThread ignored: the mutex is released and the loop goes on *)
gap_app_kill_continues ==
    /\ ~halted
    /\ thread = "cs"
    /\ command[1] = GapCommandKillThread
    /\ thread' = "get"
    /\ state_mutex' = "free"
    /\ last' = Did("KillThread", <<>>, <<>>, NoRet)
    /\ UNCHANGED <<gap, gapFields, enable_adv, on_event_cb,
                   advertise_timer, command_queue, queue_st, command, app_pc,
                   evt_pc, fault, ghost, fixed>>

(* KillThread: break out of the loop, the mutex is not released *)
gap_app_kill ==
    /\ ~halted
    /\ thread = "cs"
    /\ command[1] = GapCommandKillThread
    /\ thread' = "exited"
    /\ last' = Did("KillThread", <<>>, <<>>, NoRet)
    /\ UNCHANGED <<gap, gapFields, enable_adv, on_event_cb, state_mutex,
                   advertise_timer, command_queue, queue_st, command, app_pc,
                   evt_pc, fault, ghost, fixed>>

gap_app_process ==
    /\ ~halted
    /\ thread = "cs"
    /\ command[1] # GapCommandKillThread
    /\ LET r == gap_app_dispatch(command[1], state, connection_handle, advertise_timer)
       IN /\ state' = r.state
          /\ advertise_timer' = r.timer
          /\ last' = Did(CommandName(command[1]), r.ev, r.ctl, NoRet)
          /\ controller' = AfterCalls(controller, r.ctl)
    /\ state_mutex' = "free"
    /\ thread' = "get"
    /\ UNCHANGED <<gap, connection_handle, connection_params, conn_rssi,
                   time_rssi_sample, enable_adv, on_event_cb, command_queue,
                   queue_st, command, app_pc, evt_pc, fault, ghost, inputs,
                   init_failed>>

(* ------------------------------------------------------------------ *)
(* gap_advetise_timer_callback: the timer expires and posts AdvLowPower *)
(* ------------------------------------------------------------------ *)
(* furry_check(furry_message_queue_put(..., 0) == FurryStatusOk): the put, or *)
(* the crash of a failed check, as the new <<queue, tickets, fault>> *)
CheckedPut(q, c, n) ==
    IF QueueHasRoom(q)
    THEN <<furry_message_queue_put(q, c, n), NextTicket(n), "none">>
    ELSE <<q, n, "queue_full">>

gap_advetise_timer_callback ==
    /\ ~halted
    /\ advertise_timer = "armed"
    /\ queue_st = "alloc"
    /\ WithinPending(command_queue)
    /\ TicketsLeft(tickets)
    /\ advertise_timer' = "stopped"
    /\ LET r == CheckedPut(command_queue, GapCommandAdvLowPower, tickets)
       IN /\ command_queue' = r[1]
          /\ tickets' = r[2]
          /\ fault' = r[3]
    /\ last' = Quiet
    /\ UNCHANGED <<gap, gapFields, enable_adv, on_event_cb, state_mutex, queue_st,
                   thread, command, app_pc, evt_pc, served, kill_seen, fixed>>

(* the timer expires after furry_message_queue_free: the put uses freed memory; *)
(* it either goes unnoticed or crashes the system *)
gap_advetise_timer_callback_freed ==
    /\ ~halted
    /\ advertise_timer = "armed"
    /\ queue_st = "freed"
    /\ advertise_timer' = "stopped"
    /\ \E crash \in BOOLEAN : fault' = IF crash THEN "queue_use_after_free" ELSE "none"
    /\ last' = Did("timer_callback_freed", <<>>, <<>>, NoRet)
    /\ UNCHANGED <<gap, gapFields, enable_adv, on_event_cb, state_mutex,
                   command_queue, queue_st, thread, command, app_pc, evt_pc,
                   ghost, fixed>>

(* ------------------------------------------------------------------ *)
(* Public API, called by the application thread one call at a time     *)
(* ------------------------------------------------------------------ *)
AppAcquire(pc) ==
    /\ ~halted
    /\ app_pc = "idle"
    /\ gap /\ on_event_cb
    /\ MutexAcquirable(state_mutex)
    /\ state_mutex' = "app"
    /\ app_pc' = pc
    /\ last' = Quiet
    /\ UNCHANGED <<gap, gapFields, enable_adv, on_event_cb, advertise_timer,
                   command_queue, queue_st, thread, command, evt_pc, fault, ghost, fixed>>

gap_start_advertising_acquire ==
    /\ WithinPending(command_queue)
    /\ TicketsLeft(tickets)
    /\ AppAcquire("start")

gap_start_advertising ==
    /\ ~halted
    /\ app_pc = "start"
    /\ IF state = GapStateIdle
       THEN LET r == CheckedPut(command_queue, GapCommandAdvFast, tickets)
            IN /\ state' = GapStateStartingAdv
               /\ enable_adv' = TRUE
               /\ command_queue' = r[1]
               /\ tickets' = r[2]
               /\ fault' = r[3]
                    /\ state_mutex' = IF r[3] # "none" THEN state_mutex ELSE "free"
               /\ app_pc' = IF r[3] # "none" THEN app_pc ELSE "idle"
       ELSE /\ state_mutex' = "free"
            /\ app_pc' = "idle"
            /\ UNCHANGED <<state, enable_adv, command_queue, tickets, fault>>
    /\ last' = Quiet
    /\ UNCHANGED <<gap, connection_handle, connection_params, conn_rssi,
                   time_rssi_sample, on_event_cb, advertise_timer, queue_st,
                   thread, command, evt_pc, served, kill_seen, fixed>>

gap_stop_advertising_acquire ==
    /\ StopWithinPending(command_queue)
    /\ TicketsLeft(tickets)
    /\ AppAcquire("stop")

gap_stop_advertising ==
    /\ ~halted
    /\ app_pc = "stop"
    /\ IF state > GapStateIdle
       THEN LET r == CheckedPut(command_queue, GapCommandAdvStop, tickets)
            IN /\ enable_adv' = FALSE
               /\ command_queue' = r[1]
               /\ tickets' = r[2]
               /\ fault' = r[3]
                    /\ state_mutex' = IF r[3] # "none" THEN state_mutex ELSE "free"
               /\ app_pc' = IF r[3] # "none" THEN app_pc ELSE "idle"
       ELSE /\ state_mutex' = "free"
            /\ app_pc' = "idle"
            /\ UNCHANGED <<enable_adv, command_queue, tickets, fault>>
    /\ last' = Quiet
    /\ UNCHANGED <<gap, gapFields, on_event_cb, advertise_timer, queue_st,
                   thread, command, evt_pc, served, kill_seen, fixed>>

(* gap_get_state with gap == NULL *)
gap_get_state_null ==
    /\ ~halted
    /\ app_pc = "idle"
    /\ ~gap
    /\ last' = Did("gap_get_state", <<>>, <<>>, Ret(GapStateUninitialized))
    /\ UNCHANGED <<gap, gapFields, enable_adv, on_event_cb, state_mutex,
                   advertise_timer, command_queue, queue_st, thread, command,
                   app_pc, evt_pc, fault, ghost, fixed>>

gap_get_state_acquire == AppAcquire("get_state")

gap_get_state ==
    /\ ~halted
    /\ app_pc = "get_state"
    /\ last' = Did("gap_get_state", <<>>, <<>>, Ret(state))
    /\ state_mutex' = "free"
    /\ app_pc' = "idle"
    /\ UNCHANGED <<gap, gapFields, enable_adv, on_event_cb, advertise_timer,
                   command_queue, queue_st, thread, command, evt_pc, fault, ghost, fixed>>

(* ------------------------------------------------------------------ *)
(* fetch_rssi and gap_get_remote_conn_rssi (no lock is taken)          *)
(* ------------------------------------------------------------------ *)
(* (int8_t)ret_rssi *)
ToInt8(u) == IF u >= 128 THEN u - 256 ELSE u

(* what hci_read_rssi and furry_get_tick can give fetch_rssi *)
RssiReads ==
    {[ok |-> FALSE, raw |-> 127, tick |-> 0]}
    \cup {[ok |-> TRUE, raw |-> r, tick |-> t] : r \in inputs.raw_rssi, t \in inputs.ticks}

(* <<conn_rssi, time_rssi_sample>> after fetch_rssi *)
fetch_rssi(o, rssi, ts) == IF o.ok THEN <<ToInt8(o.raw), o.tick>> ELSE <<rssi, ts>>

(* if(gap && gap->state == GapStateConnected) *)
gap_get_remote_conn_rssi_check ==
    /\ ~halted
    /\ app_pc = "idle"
    /\ IF gap /\ state = GapStateConnected
       THEN /\ app_pc' = "rssi_fetch"
            /\ last' = Quiet
       ELSE /\ app_pc' = "idle"
            /\ last' = Did("gap_get_remote_conn_rssi", <<>>, <<>>, Ret(0))
    /\ UNCHANGED <<gap, gapFields, enable_adv, on_event_cb, state_mutex,
                   advertise_timer, command_queue, queue_st, thread, command,
                   evt_pc, fault, ghost, fixed>>

gap_get_remote_conn_rssi_fetch ==
    /\ ~halted
    /\ app_pc = "rssi_fetch"
    /\ \E o \in RssiReads :
          /\ conn_rssi' = fetch_rssi(o, conn_rssi, time_rssi_sample)[1]
          /\ time_rssi_sample' = fetch_rssi(o, conn_rssi, time_rssi_sample)[2]
    /\ app_pc' = "rssi_return"
    /\ last' = Did("gap_get_remote_conn_rssi_fetch", <<>>,
                   <<Ctl("hci_read_rssi", <<connection_handle>>)>>, NoRet)
    /\ UNCHANGED <<gap, state, connection_handle, connection_params, enable_adv,
                   on_event_cb, state_mutex, advertise_timer, command_queue,
                   queue_st, thread, command, evt_pc, fault, ghost, fixed>>

(* if(gap->time_rssi_sample) return furry_get_tick() - gap->time_rssi_sample; *)
RssiAge(now, ts) == IF ts # 0 THEN now - ts ELSE 0

gap_get_remote_conn_rssi_return ==
    /\ ~halted
    /\ app_pc = "rssi_return"
    /\ \E now \in inputs.ticks :
          /\ now >= time_rssi_sample
          /\ last' = Did("gap_get_remote_conn_rssi", <<>>, <<>>,
                         Ret(RssiAge(now, time_rssi_sample)))
    /\ app_pc' = "idle"
    /\ UNCHANGED <<gap, gapFields, enable_adv, on_event_cb, state_mutex,
                   advertise_timer, command_queue, queue_st, thread, command,
                   evt_pc, fault, ghost, fixed>>

(* ------------------------------------------------------------------ *)
(* gap_init                                                            *)
(* ------------------------------------------------------------------ *)
PairingMethods == {"GapPairingNone", "GapPairingPinCodeShow", "GapPairingPinCodeVerifyYesNo"}
(* GapConfig, as far as gap_init_svc branches on it *)
GapConfigs == [pairing_method : PairingMethods, bonding_mode : BOOLEAN]

(* a bool passed as a uint8_t argument *)
BoolToU8(b) == IF b THEN 1 ELSE 0

(* gap_init_svc with the None branch leaving conf_bonding as configured *)
AuthRequirement_none_keeps_bonding(cfg) ==
    IF cfg.pairing_method = "GapPairingPinCodeShow"
    THEN [io |-> "IO_CAP_DISPLAY_ONLY", bonding |-> BoolToU8(cfg.bonding_mode),
          mitm |-> inputs.cfg_mitm, keypress |-> 0, fixed_pin |-> inputs.cfg_fixed_pin]
    ELSE IF cfg.pairing_method = "GapPairingPinCodeVerifyYesNo"
    THEN [io |-> "IO_CAP_DISPLAY_YES_NO", bonding |-> BoolToU8(cfg.bonding_mode),
          mitm |-> inputs.cfg_mitm, keypress |-> 1, fixed_pin |-> inputs.cfg_fixed_pin]
    ELSE [io |-> "IO_CAP_DISPLAY_YES_NO", bonding |-> BoolToU8(cfg.bonding_mode),
          mitm |-> 0, keypress |-> 1, fixed_pin |-> 0]

(* gap_init_svc: the I/O capability and the authentication requirement it sets *)
AuthRequirement(cfg) ==
    IF cfg.pairing_method = "GapPairingPinCodeShow"
    THEN [io |-> "IO_CAP_DISPLAY_ONLY", bonding |-> BoolToU8(cfg.bonding_mode),
          mitm |-> inputs.cfg_mitm, keypress |-> 0, fixed_pin |-> inputs.cfg_fixed_pin]
    ELSE IF cfg.pairing_method = "GapPairingPinCodeVerifyYesNo"
    THEN [io |-> "IO_CAP_DISPLAY_YES_NO", bonding |-> BoolToU8(cfg.bonding_mode),
          mitm |-> inputs.cfg_mitm, keypress |-> 1, fixed_pin |-> inputs.cfg_fixed_pin]
    ELSE (* GapPairingNone *)
         [io |-> "IO_CAP_DISPLAY_YES_NO", bonding |-> BoolToU8(FALSE),
          mitm |-> 0, keypress |-> 1, fixed_pin |-> 0]

(* gap_init_svc: its calls to the controller, in order *)
gap_init_svc(cfg) ==
    LET a == AuthRequirement(cfg)
    IN <<Ctl("aci_hal_write_config_data", <<"CONFIG_DATA_PUBADDR_OFFSET">>),
         Ctl("aci_hal_write_config_data", <<"CONFIG_DATA_RANDOM_ADDRESS_OFFSET">>),
         Ctl("aci_hal_write_config_data", <<"CONFIG_DATA_IR_OFFSET">>),
         Ctl("aci_hal_write_config_data", <<"CONFIG_DATA_ER_OFFSET">>),
         Ctl("aci_hal_set_tx_power_level", <<1, 25>>),
         Ctl("aci_gatt_init", <<>>),
         Ctl("aci_gap_init", <<"GAP_PERIPHERAL_ROLE">>),
         Ctl("aci_gatt_update_char_value", <<"dev_name_char_handle">>),
         Ctl("aci_gatt_update_char_value", <<"appearance_char_handle">>),
         Ctl("hci_le_set_default_phy", <<>>),
         Ctl("aci_gap_set_io_capability", <<a.io>>),
         Ctl("aci_gap_set_authentication_requirement",
             <<a.bonding, a.mitm, a.keypress, a.fixed_pin>>),
         Ctl("aci_gap_configure_whitelist", <<>>)>>

(* gap_init checking the radio stack only after malloc and the timer allocation *)
gap_init_not_ready_after_alloc ==
    /\ ~halted
    /\ app_pc = "idle"
    /\ ~gap
    /\ gap' = TRUE
    /\ advertise_timer' = "stopped"
    /\ init_failed' = TRUE
    /\ last' = Did("gap_init", <<>>, <<>>, Ret(0))
    /\ UNCHANGED <<gapFields, enable_adv, on_event_cb, state_mutex, command_queue,
                   queue_st, thread, command, app_pc, evt_pc, fault, ghost, inputs,
                   controller>>

(* if(!bl_igloo_is_radio_stack_ready()) return false; *)
gap_init_not_ready ==
    /\ ~halted
    /\ app_pc = "idle"
    /\ ~gap
    /\ init_failed' = TRUE
    /\ last' = Did("gap_init", <<>>, <<>>, Ret(0))
    /\ UNCHANGED <<gap, gapFields, enable_adv, on_event_cb, state_mutex,
                   advertise_timer, command_queue, queue_st, thread, command,
                   app_pc, evt_pc, fault, ghost, inputs, controller>>

(* malloc, timer alloc, gap_init_svc, mutex alloc, the initial GAP state, *)
(* and furry_thread_start: the worker runs from here on *)
gap_init_start ==
    /\ ~halted
    /\ app_pc = "idle"
    /\ ~gap
    /\ gap' = TRUE
    /\ advertise_timer' = "stopped"
    /\ state_mutex' = "free"
    /\ state' = GapStateIdle
    /\ connection_handle' = NoConnectionHandle
    /\ enable_adv' = TRUE
    /\ conn_rssi' = RssiUnknown
    /\ time_rssi_sample' = 0
    /\ thread' = "get"
    /\ app_pc' = "init_queue"
    /\ init_failed' = FALSE
    /\ controller' = ControllerReset
    /\ \E cfg \in inputs.configs :
          last' = [Did("gap_init_svc", <<>>, gap_init_svc(cfg), NoRet) EXCEPT
                      !.arg = [type |-> cfg.pairing_method, handle |-> 0,
                               value |-> BoolToU8(cfg.bonding_mode)]]
    /\ UNCHANGED <<connection_params, on_event_cb, command_queue, queue_st, command,
                   evt_pc, fault, ghost, inputs>>

(* gap->command_queue = furry_message_queue_alloc(8, sizeof(GapCommand)) *)
gap_init_queue ==
    /\ ~halted
    /\ app_pc = "init_queue"
    /\ queue_st' = "alloc"
    /\ command_queue' = <<>>
    /\ app_pc' = "init_callback"
    /\ last' = Quiet
    /\ UNCHANGED <<gap, gapFields, enable_adv, on_event_cb, state_mutex,
                   advertise_timer, thread, command, evt_pc, fault,
                   ghost, fixed>>

(* gap->on_event_cb = on_event_cb; return true *)
gap_init_callback ==
    /\ ~halted
    /\ app_pc = "init_callback"
    /\ on_event_cb' = TRUE
    /\ app_pc' = "idle"
    /\ last' = Did("gap_init", <<>>, <<>>, Ret(1))
    /\ UNCHANGED <<gap, gapFields, enable_adv, state_mutex, advertise_timer,
                   command_queue, queue_st, thread, command, evt_pc, fault, ghost, fixed>>

(* ------------------------------------------------------------------ *)
(* gap_thread_stop                                                     *)
(* ------------------------------------------------------------------ *)
gap_thread_stop_acquire == AppAcquire("kill_put")

(* enable_adv = false; put KillThread (waiting for room); release the mutex *)
gap_thread_stop_put ==
    /\ ~halted
    /\ app_pc = "kill_put"
    /\ QueueHasRoom(command_queue)
    /\ TicketsLeft(tickets)
    /\ enable_adv' = FALSE
    /\ command_queue' = furry_message_queue_put(command_queue, GapCommandKillThread, tickets)
    /\ tickets' = NextTicket(tickets)
    /\ state_mutex' = "free"
    /\ app_pc' = "join"
    /\ last' = Quiet
    /\ UNCHANGED <<gap, gapFields, on_event_cb, advertise_timer, queue_st, thread,
                   command, evt_pc, fault, served, kill_seen, fixed>>

(* furry_thread_join returns once gap_app has returned; furry_thread_free *)
gap_thread_stop_join ==
    /\ ~halted
    /\ app_pc = "join"
    /\ thread = "exited"
    /\ thread' = "null"
    /\ command' = <<GapCommandAdvFast, 0>>
    /\ app_pc' = "free_mutex"
    /\ last' = Quiet
    /\ UNCHANGED <<gap, gapFields, enable_adv, on_event_cb, state_mutex,
                   advertise_timer, command_queue, queue_st, evt_pc,
                   fault, ghost, fixed>>

(* furry_mutex_free(gap->state_mutex) *)
gap_thread_stop_free_mutex ==
    /\ ~halted
    /\ app_pc = "free_mutex"
    /\ state_mutex' = "freed"
    /\ app_pc' = "free_queue"
    /\ last' = Quiet
    /\ UNCHANGED <<gap, gapFields, enable_adv, on_event_cb, advertise_timer,
                   command_queue, queue_st, thread, command, evt_pc, fault, ghost, fixed>>

(* furry_message_queue_free(gap->command_queue) *)
gap_thread_stop_free_queue ==
    /\ ~halted
    /\ app_pc = "free_queue"
    /\ queue_st' = "freed"
    /\ app_pc' = "free_timer"
    /\ last' = Quiet
    /\ UNCHANGED <<gap, gapFields, enable_adv, on_event_cb, state_mutex,
                   advertise_timer, command_queue, thread, command, evt_pc,
                   fault, ghost, fixed>>

(* furry_timer_stop, wait until inactive, furry_timer_free, free(gap), gap = NULL *)
gap_thread_stop_free_timer ==
    /\ ~halted
    /\ app_pc = "free_timer"
    /\ gap' = FALSE
    /\ state' = GapStateUninitialized
    /\ connection_handle' = NoConnectionHandle
    /\ connection_params' = NoParams
    /\ conn_rssi' = RssiUnknown
    /\ time_rssi_sample' = 0
    /\ enable_adv' = FALSE
    /\ on_event_cb' = FALSE
    /\ state_mutex' = "null"
    /\ advertise_timer' = "null"
    /\ command_queue' = <<>>
    /\ queue_st' = "null"
    /\ kill_seen' = -1
    /\ app_pc' = "idle"
    /\ served' = IF tickets = 0 THEN 0 ELSE tickets - 1
    /\ last' = [Quiet EXCEPT !.op = "gap_thread_stop"]
    /\ UNCHANGED <<thread, command, evt_pc, fault, tickets, fixed>>

(* ------------------------------------------------------------------ *)
(* SVCCTL_App_Notification: the controller event translator            *)
(* ------------------------------------------------------------------ *)
CtlEvent(type, handle, params, value) ==
    [type |-> type, handle |-> handle, params |-> params, value |-> value]

ReportedParams ==
    {[conn_interval |-> i, slave_latency |-> l, supervisor_timeout |-> t] :
        i \in inputs.intervals, l \in inputs.latencies, t \in inputs.timeouts}

(* the events the controller can report, with their payloads *)
ControllerEvents ==
    {CtlEvent("disconn_complete", h, NoParams, 0) :
        h \in inputs.handles \cup inputs.foreign}
    \cup {CtlEvent("conn_update_complete", 0, p, 0) : p \in ReportedParams}
    \cup {CtlEvent("phy_update_complete", 0, NoParams, 0)}
    \cup {CtlEvent("conn_complete", h, p, 0) : h \in inputs.handles, p \in ReportedParams}
    \cup {CtlEvent("pass_key_request", 0, NoParams, r) : r \in inputs.rands}
    \cup {CtlEvent("att_exchange_mtu_resp", 0, NoParams, m) : m \in inputs.mtus}
    \cup {CtlEvent("bond_lost", 0, NoParams, 0)}
    \cup {CtlEvent("numeric_comparison_value", 0, NoParams, r) : r \in inputs.rands}
    \cup {CtlEvent("pairing_complete", 0, NoParams, st) : st \in inputs.statuses}
    \cup {CtlEvent("other", 0, NoParams, 0)}

(* gap_verify_connection_parameters asking for an update at the bounds too *)
gap_verify_connection_parameters_strict(p, h) ==
    IF ConnIntMin >= p.conn_interval \/ ConnIntMax <= p.conn_interval
    THEN <<Ctl("aci_l2cap_connection_parameter_update_req",
               <<h, ConnIntMin, ConnIntMax, p.slave_latency, p.supervisor_timeout>>)>>
    ELSE <<>>

(* gap_verify_connection_parameters: the update request it sends, if any *)
gap_verify_connection_parameters(p, h) ==
    IF ConnIntMin > p.conn_interval \/ ConnIntMax < p.conn_interval
    THEN <<Ctl("aci_l2cap_connection_parameter_update_req",
               <<h, ConnIntMin, ConnIntMax, p.slave_latency, p.supervisor_timeout>>)>>
    ELSE <<>>

(* a header size of 4 bytes instead of 3 *)
MaxPacketSize_header4(mtu) == (mtu - 4) % 65536

(* pr->Server_RX_MTU - 3, stored in the uint16_t max_packet_size *)
MaxPacketSize(mtu) == (mtu - 3) % 65536

(* rand() % 999999 *)
PinCode(r) == r % 999999

Unchanged(s, h, p, rssi, ts, t) ==
    [state |-> s, handle |-> h, params |-> p, rssi |-> rssi, ts |-> ts,
     timer |-> t, ev |-> <<>>, ctl |-> <<>>]

(* EVT_DISCONN_COMPLETE restarting advertising in the low power mode *)
OnDisconnComplete_low_power(e, s, h, p, rssi, ts, t, en) ==
    LET matched == e.handle = h
        s1 == IF matched THEN GapStateIdle ELSE s
        h1 == IF matched THEN 0 ELSE h
        r  == gap_advertise_start(GapStateAdvLowPower, s1, t)
    IN IF en
       THEN [state |-> r.state, handle |-> h1, params |-> p, rssi |-> rssi, ts |-> ts,
             timer |-> r.timer, ev |-> r.ev \o <<Ev("Disconnected", 0)>>, ctl |-> r.ctl]
       ELSE [state |-> s1, handle |-> h1, params |-> p, rssi |-> rssi, ts |-> ts,
             timer |-> t, ev |-> <<Ev("Disconnected", 0)>>, ctl |-> <<>>]

(* case EVT_DISCONN_COMPLETE *)
OnDisconnComplete(e, s, h, p, rssi, ts, t, en) ==
    LET matched == e.handle = h
        s1 == IF matched THEN GapStateIdle ELSE s
        h1 == IF matched THEN 0 ELSE h
        r  == gap_advertise_start(GapStateAdvFast, s1, t)
    IN IF en
       THEN [state |-> r.state, handle |-> h1, params |-> p, rssi |-> rssi, ts |-> ts,
             timer |-> r.timer, ev |-> r.ev \o <<Ev("Disconnected", 0)>>, ctl |-> r.ctl]
       ELSE [state |-> s1, handle |-> h1, params |-> p, rssi |-> rssi, ts |-> ts,
             timer |-> t, ev |-> <<Ev("Disconnected", 0)>>, ctl |-> <<>>]

(* case EVT_LE_CONN_UPDATE_COMPLETE *)
OnConnUpdateComplete(e, o, s, h, p, rssi, ts, t) ==
    [state |-> s, handle |-> h, params |-> e.params,
     rssi |-> fetch_rssi(o, rssi, ts)[1], ts |-> fetch_rssi(o, rssi, ts)[2],
     timer |-> t, ev |-> <<>>,
     ctl |-> gap_verify_connection_parameters(e.params, h)
             \o <<Ctl("hci_read_rssi", <<h>>)>>]

(* case EVT_LE_CONN_COMPLETE *)
OnConnComplete(e, o, s, h, p, rssi, ts, t) ==
    [state |-> GapStateConnected, handle |-> e.handle, params |-> e.params,
     rssi |-> fetch_rssi(o, rssi, ts)[1], ts |-> fetch_rssi(o, rssi, ts)[2],
     timer |-> furry_timer_stop(t), ev |-> <<>>,
     ctl |-> gap_verify_connection_parameters(e.params, e.handle)
             \o <<Ctl("hci_read_rssi", <<e.handle>>),
                  Ctl("aci_gap_slave_security_req", <<e.handle>>)>>]

(* EVT_BLUE_GAP_PAIRING_CMPLT reporting Connected without looking at the status *)
OnPairingComplete_ignores_status(e, o, s, h, p, rssi, ts, t) ==
    [Unchanged(s, h, p, rssi, ts, t) EXCEPT
        !.rssi = fetch_rssi(o, rssi, ts)[1],
        !.ts = fetch_rssi(o, rssi, ts)[2],
        !.ctl = <<Ctl("hci_read_rssi", <<h>>)>>,
        !.ev = <<Ev("Connected", 0)>>]

(* case EVT_BLUE_GAP_PAIRING_CMPLT *)
OnPairingComplete(e, o, s, h, p, rssi, ts, t) ==
    IF e.value # 0
    THEN [Unchanged(s, h, p, rssi, ts, t) EXCEPT
             !.ctl = <<Ctl("aci_gap_terminate", <<h, 5>>)>>]
    ELSE [Unchanged(s, h, p, rssi, ts, t) EXCEPT
             !.rssi = fetch_rssi(o, rssi, ts)[1],
             !.ts = fetch_rssi(o, rssi, ts)[2],
             !.ctl = <<Ctl("hci_read_rssi", <<h>>)>>,
             !.ev = <<Ev("Connected", 0)>>]

(* EVT_BLUE_GAP_NUMERIC_COMPARISON_VALUE confirming whatever on_event_cb returns *)
OnNumericComparison_always_yes(e, answer, s, h, p, rssi, ts, t) ==
    [Unchanged(s, h, p, rssi, ts, t) EXCEPT
        !.ev = <<Ev("PinCodeVerify", e.value)>>,
        !.ctl = <<Ctl("aci_gap_numeric_comparison_value_confirm_yesno", <<h, 1>>)>>]

(* case EVT_BLUE_GAP_NUMERIC_COMPARISON_VALUE *)
OnNumericComparison(e, answer, s, h, p, rssi, ts, t) ==
    [Unchanged(s, h, p, rssi, ts, t) EXCEPT
        !.ev = <<Ev("PinCodeVerify", e.value)>>,
        !.ctl = <<Ctl("aci_gap_numeric_comparison_value_confirm_yesno",
                      <<h, IF answer THEN 1 ELSE 0>>)>>]

(* the switch: the fields, timer, events and controller calls after event e, *)
(* with o what fetch_rssi reads and answer what on_event_cb returns *)
SVCCTL_handle(e, o, answer, s, h, p, rssi, ts, t, en) ==
    CASE e.type = "disconn_complete" -> OnDisconnComplete(e, s, h, p, rssi, ts, t, en)
      [] e.type = "conn_update_complete" -> OnConnUpdateComplete(e, o, s, h, p, rssi, ts, t)
      [] e.type = "conn_complete" -> OnConnComplete(e, o, s, h, p, rssi, ts, t)
      [] e.type = "pairing_complete" -> OnPairingComplete(e, o, s, h, p, rssi, ts, t)
      [] e.type = "phy_update_complete" ->
            [Unchanged(s, h, p, rssi, ts, t) EXCEPT
                !.ctl = <<Ctl("hci_le_read_phy", <<h>>)>>]
      [] e.type = "pass_key_request" ->
            [Unchanged(s, h, p, rssi, ts, t) EXCEPT
                !.ctl = <<Ctl("aci_gap_pass_key_resp", <<h, PinCode(e.value)>>)>>,
                !.ev = <<Ev("PinCodeShow", PinCode(e.value))>>]
      [] e.type = "att_exchange_mtu_resp" ->
            [Unchanged(s, h, p, rssi, ts, t) EXCEPT
                !.ev = <<Ev("UpdateMTU", MaxPacketSize(e.value))>>]
      [] e.type = "bond_lost" ->
            [Unchanged(s, h, p, rssi, ts, t) EXCEPT
                !.ctl = <<Ctl("aci_gap_allow_rebond", <<h>>)>>]
      [] e.type = "numeric_comparison_value" ->
            OnNumericComparison(e, answer, s, h, p, rssi, ts, t)
      [] OTHER -> Unchanged(s, h, p, rssi, ts, t)

(* the handlers that call fetch_rssi, and the one that uses on_event_cb's answer *)
ReadsFor(e) ==
    IF e.type \in {"conn_update_complete", "conn_complete"}
       \/ (e.type = "pairing_complete" /\ e.value = 0)
    THEN RssiReads
    ELSE {[ok |-> FALSE, raw |-> 127, tick |-> 0]}
AnswersFor(e) == IF e.type = "numeric_comparison_value" THEN BOOLEAN ELSE {FALSE}
(* what aci_l2cap_connection_parameter_update_req can return; it is only logged *)
StatusesFor(ctl) ==
    IF \E i \in 1..Len(ctl) : ctl[i][1] = "aci_l2cap_connection_parameter_update_req"
    THEN {{st} : st \in inputs.statuses}
    ELSE {{}}
(* the interval a connection event reports, the value any other event carries *)
ReportedValue(e) ==
    IF e.type \in {"conn_complete", "conn_update_complete"}
    THEN e.params.conn_interval ELSE e.value

(* the event context takes the state mutex *)
SVCCTL_App_Notification_acquire ==
    /\ ~halted
    /\ evt_pc = "idle"
    /\ gap /\ on_event_cb
    /\ MutexAcquirable(state_mutex)
    /\ state_mutex' = "evt"
    /\ evt_pc' = "cs"
    /\ last' = Quiet
    /\ UNCHANGED <<gap, gapFields, enable_adv, on_event_cb, advertise_timer,
                   command_queue, queue_st, thread, command, app_pc, fault, ghost, fixed>>

(* the switch, then the release of the mutex *)
SVCCTL_App_Notification ==
    /\ ~halted
    /\ evt_pc = "cs"
    /\ \E e \in {x \in ControllerEvents :
                    x.type \in inputs.events /\ Reportable(x, controller)} :
       \E o \in ReadsFor(e), answer \in AnswersFor(e) :
          LET r == SVCCTL_handle(e, o, answer, state, connection_handle,
                                 connection_params, conn_rssi, time_rssi_sample,
                                 advertise_timer, enable_adv)
          IN /\ state' = r.state
             /\ connection_handle' = r.handle
             /\ connection_params' = r.params
             /\ conn_rssi' = r.rssi
             /\ time_rssi_sample' = r.ts
             /\ advertise_timer' = r.timer
             /\ \E st \in StatusesFor(r.ctl) :
                   last' = [Did(e.type, r.ev, r.ctl, NoRet) EXCEPT
                               !.arg = [type |-> e.type, handle |-> e.handle,
                                        value |-> ReportedValue(e)],
                               !.answer = IF e.type = "numeric_comparison_value"
                                          THEN {answer} ELSE {},
                               !.status = st]
             /\ controller' = AfterCalls(AfterEvent(e, controller), r.ctl)
    /\ state_mutex' = "free"
    /\ evt_pc' = "idle"
    /\ UNCHANGED <<gap, enable_adv, on_event_cb, command_queue, queue_st, thread,
                   command, app_pc, fault, ghost, inputs, init_failed>>

(* ------------------------------------------------------------------ *)
(* The specification                                                   *)
(* ------------------------------------------------------------------ *)
Next ==
    \/ gap_init_not_ready
    \/ gap_init_start
    \/ gap_init_queue
    \/ gap_init_callback
    \/ gap_start_advertising_acquire
    \/ gap_start_advertising
    \/ gap_stop_advertising_acquire
    \/ gap_stop_advertising
    \/ gap_get_state_null
    \/ gap_get_state_acquire
    \/ gap_get_state
    \/ gap_get_remote_conn_rssi_check
    \/ gap_get_remote_conn_rssi_fetch
    \/ gap_get_remote_conn_rssi_return
    \/ gap_thread_stop_acquire
    \/ gap_thread_stop_put
    \/ gap_thread_stop_join
    \/ gap_thread_stop_free_mutex
    \/ gap_thread_stop_free_queue
    \/ gap_thread_stop_free_timer
    \/ gap_app_get
    \/ gap_app_get_unallocated
    \/ gap_app_acquire
    \/ gap_app_kill
    \/ gap_app_process
    \/ gap_advetise_timer_callback
    \/ gap_advetise_timer_callback_freed
    \/ SVCCTL_App_Notification_acquire
    \/ SVCCTL_App_Notification

Spec == Init /\ [][Next]_vars

(* the same program with every queued command numbered in posting order *)
InitFifo == InitCommon /\ tickets = 1 /\ inputs = BaseInputs
SpecFifo == InitFifo /\ [][Next]_vars

SpecController == InitController /\ [][Next]_vars

(* scheduling: the worker thread runs whenever it can; furry_mutex_acquire *)
(* queues its waiters, so a worker that waits for a mutex that is released *)
(* again and again gets it; the event handler and furry_thread_join return *)
Fairness ==
    /\ WF_vars(gap_app_get)
    /\ SF_vars(gap_app_acquire)
    /\ WF_vars(gap_app_kill)
    /\ WF_vars(gap_app_process)
    /\ WF_vars(SVCCTL_App_Notification)
    /\ WF_vars(gap_thread_stop_join)
(* one connection handle, one set of connection parameters, pairing succeeds *)
LiveInputs ==
    [BaseInputs EXCEPT !.conforming = TRUE, !.handles = {1},
                       !.intervals = {ConnIntMin}, !.statuses = {0}]
InitLive == InitCommon /\ tickets = 0 /\ inputs = LiveInputs
SpecLive == InitLive /\ [][Next]_vars /\ Fairness

(* the same program with an application that does not wait for the worker *)
(* before it calls gap_stop_advertising again *)
QueueInputs ==
    [BaseInputs EXCEPT !.conforming = TRUE, !.pending_stop = QueueCapacity + 1]
InitQueue == InitCommon /\ tickets = 0 /\ inputs = QueueInputs
SpecQueue == InitQueue /\ [][Next]_vars

(* the same program with a clock that moves on between RSSI samples *)
RssiInputs == [BaseInputs EXCEPT !.conforming = TRUE, !.ticks = 1..MaxTick]
InitRssi == InitCommon /\ tickets = 0 /\ inputs = RssiInputs
SpecRssi == InitRssi /\ [][Next]_vars

(* the same program with connections whose interval is below, at either end *)
(* of, and above the configured range *)
ParamsInputs ==
    [BaseInputs EXCEPT !.conforming = TRUE,
                       !.intervals = {ConnIntMin - 1, ConnIntMin, ConnIntMax, ConnIntMax + 1}]
InitParams == InitCommon /\ tickets = 0 /\ inputs = ParamsInputs
SpecParams == InitParams /\ [][Next]_vars

(* the same program with a peer that answers the MTU exchange with small, *)
(* usual and the largest 16-bit values *)
MtuInputs ==
    [BaseInputs EXCEPT !.conforming = TRUE, !.mtus = (0..MaxSmallMtu) \cup {23, 65535}]
InitMtu == InitCommon /\ tickets = 0 /\ inputs = MtuInputs
SpecMtu == InitMtu /\ [][Next]_vars

(* the same program initialised with every configuration, under every build *)
(* setting of CFG_MITM_PROTECTION and CFG_USED_FIXED_PIN *)
AuthInputs ==
    {[BaseInputs EXCEPT !.conforming = TRUE, !.configs = GapConfigs,
                        !.cfg_mitm = m, !.cfg_fixed_pin = f] : m, f \in {0, 1}}
InitAuth == InitCommon /\ tickets = 0 /\ inputs \in AuthInputs
SpecAuth == InitAuth /\ [][Next]_vars

(* the same program with a controller that also reports the disconnection of *)
(* a connection handle the program has not recorded *)
ForeignInputs == [BaseInputs EXCEPT !.conforming = TRUE, !.foreign = {MaxHandle + 1}]
InitForeign == InitCommon /\ tickets = 0 /\ inputs = ForeignInputs
SpecForeign == InitForeign /\ [][Next]_vars

(* ------------------------------------------------------------------ *)
(* Properties                                                          *)
(* ------------------------------------------------------------------ *)
Delivered(type) == type \in EventTypes(last)
Called(name) == name \in CtlNames(last)
DisconnectMatched == last.op = "disconn_complete" /\ last.arg.handle = last.pre.handle

(* C1: whatever the state in which the worker processes AdvStop (Idle, *)
(* StartingAdv, AdvFast, AdvLowPower, Connected), the state right after is Idle; *)
(* in particular a second AdvStop processed in Idle leaves Idle. *)
C1_AdvStopLeavesIdle == last.op = "AdvStop" => state = GapStateIdle

C1_Witness == last.op = "AdvStop" /\ last.pre.state = GapStateStartingAdv

(* C2: right after the worker processed AdvFast the advertising timer is armed, *)
(* and an AdvLowPower command (posted only by the timer callback) processed in *)
(* AdvFast leaves the state AdvLowPower, never Connected or Idle. *)
C2_FastArmsTimerExpiryDemotes ==
    /\ last.op = "AdvFast" => advertise_timer = "armed" /\ state = GapStateAdvFast
    /\ last.op = "AdvLowPower" /\ last.pre.state = GapStateAdvFast
          => state = GapStateAdvLowPower

C2_Witness ==
    /\ last.op = "AdvLowPower"
    /\ last.pre.state = GapStateAdvFast
    /\ state = GapStateAdvLowPower

(* C3: after connection-complete the timer is not pending, and no step takes *)
(* the state from Connected to AdvLowPower. *)
C3_NoDemotionWhileConnected ==
    /\ [](last.op = "conn_complete" => advertise_timer # "armed")
    /\ [][~(state = GapStateConnected /\ state' = GapStateAdvLowPower)]_vars

(* C4: a disconnect event for the recorded connection handle leaves, when the *)
(* handler returns, AdvFast with the timer armed if enable_adv, Idle otherwise, *)
(* and delivers Disconnected. *)
C4_DisconnectRestartsFast ==
    DisconnectMatched =>
        /\ Delivered("Disconnected")
        /\ IF enable_adv
           THEN state = GapStateAdvFast /\ advertise_timer = "armed"
           ELSE state = GapStateIdle

C4_Witness ==
    /\ DisconnectMatched
    /\ last.pre.state = GapStateConnected
    /\ enable_adv
    /\ state = GapStateAdvFast

(* C5: once the worker has dequeued KillThread in AdvFast no event is delivered *)
(* to the application any more, and when gap_thread_stop returns the worker *)
(* has exited and the timer is stopped. *)
C5_ShutdownSilent ==
    /\ kill_seen = GapStateAdvFast => last.ev = <<>>
    /\ last.op = "gap_thread_stop" => thread = "null" /\ advertise_timer # "armed"

(* C6: the event translator and the worker are never both inside their *)
(* sections that read and write the GAP state. *)
C6_TranslatorWorkerExclusive == ~(thread = "cs" /\ evt_pc = "cs")

C6_Witness == evt_pc = "cs" /\ thread = "acquire"

(* C7: until KillThread is dequeued the worker takes the commands in the order *)
(* they were posted, each once: the waiting commands carry the tickets that *)
(* follow the last one served, without a gap. *)
C7_FifoOrder ==
    (queue_st = "alloc" /\ kill_seen = -1) =>
        /\ \A i \in 1..Len(command_queue) : command_queue[i][2] = served + i
        /\ tickets = served + Len(command_queue) + 1
        /\ thread \in {"acquire", "cs"} => command[2] = served

C7_Witness ==
    /\ thread = "acquire"
    /\ command[1] = GapCommandAdvLowPower
    /\ served = 3
    /\ Len(command_queue) = 2
    /\ command_queue[1][1] = GapCommandAdvStop

(* C8: the timer is cancelled before the lock and the queue are released: *)
(* it is never pending, and its callback never runs, once either is freed. *)
C8_TimerCancelledBeforeRelease ==
    /\ (state_mutex = "freed" \/ queue_st = "freed") => advertise_timer # "armed"
    /\ last.op # "timer_callback_freed"

(* C9: after gap_init has returned false nothing is allocated (no Gap, timer, *)
(* mutex, queue, worker thread) and gap_get_state returns Uninitialized. *)
C9_FailedInitAllocatesNothing ==
    init_failed =>
        /\ ~gap
        /\ advertise_timer = "null"
        /\ state_mutex = "null"
        /\ queue_st = "null"
        /\ thread = "null"
        /\ last.op = "gap_get_state" => last.ret = Ret(GapStateUninitialized)

C9_Witness ==
    /\ init_failed
    /\ last.op = "gap_get_state"
    /\ last.ret = Ret(GapStateUninitialized)

(* C10: whoever reads or writes state, connection parameters, connection *)
(* handle or the RSSI cache holds the state mutex while doing so. *)
C10_AccessUnderLock ==
    /\ thread = "cs" => state_mutex = "worker"
    /\ evt_pc = "cs" => state_mutex = "evt"
    /\ app_pc \in {"start", "stop", "get_state"} => state_mutex = "app"
    /\ app_pc \in {"rssi_fetch", "rssi_return"} => state_mutex = "app"

(* C11: GapState is written only by the worker while it processes a dequeued *)
(* command or by the controller event translator (gap_init, which creates the *)
(* aggregate, and the release of the aggregate aside): the public operations *)
(* gap_start_advertising, gap_stop_advertising, gap_thread_stop and the timer *)
(* callback only enqueue and leave the state as it is. *)
C11_StateWrittenByWorkerOrTranslator ==
    [][state' # state =>
          \/ thread = "cs" /\ thread' # thread
          \/ evt_pc = "cs" /\ evt_pc' # evt_pc
          \/ app_pc = "idle" /\ app_pc' = "init_queue"
          \/ app_pc = "free_timer" /\ app_pc' = "idle"]_vars

(* C12: no command submission finds the queue full: the furry_check on the *)
(* non-blocking put of gap_start_advertising, gap_stop_advertising and the timer *)
(* callback never fails, whatever the interleaving with the worker. *)
C12_QueueNeverFull == fault # "queue_full"

(* C13: gap_get_remote_conn_rssi returns age 0 whenever the state is not *)
(* Connected or no RSSI sample has been taken (time_rssi_sample is 0), and it *)
(* has the controller read the RSSI only while the state is Connected. *)
C13_RssiAgeZeroUnlessConnectedAndSampled ==
    /\ last.op = "gap_get_remote_conn_rssi"
       /\ (state # GapStateConnected \/ time_rssi_sample = 0) => last.ret = Ret(0)
    /\ last.op = "gap_get_remote_conn_rssi_fetch" => state = GapStateConnected

(* the arguments of the calls of this name that the last step made *)
CallArgs(name) == {last.ctl[i][2] : i \in {j \in 1..Len(last.ctl) : last.ctl[j][1] = name}}

(* C14: gap_init sends one authentication requirement; for pairing method None *)
(* it has bonding, MITM and fixed PIN off whatever the configured bonding flag; *)
(* for PinCodeShow and PinCodeVerifyYesNo its bonding is the configured flag. *)
C14_AuthRequirementFollowsPairingMethod ==
    last.op = "gap_init_svc" =>
        /\ Cardinality(CallArgs("aci_gap_set_authentication_requirement")) = 1
        /\ \A a \in CallArgs("aci_gap_set_authentication_requirement") :
              IF last.arg.type = "GapPairingNone"
              THEN a[1] = 0 /\ a[2] = 0 /\ a[4] = 0
              ELSE a[1] = last.arg.value

C14_Witness ==
    /\ last.op = "gap_init_svc"
    /\ last.arg.type = "GapPairingNone"
    /\ last.arg.value = 1
    /\ inputs.cfg_mitm = 1
    /\ <<0, 0, 1, 0>> \in CallArgs("aci_gap_set_authentication_requirement")

(* C15: on a numeric-comparison event on_event_cb is called once, with *)
(* PinCodeVerify and the controller's numeric value, and what it returns is the *)
(* value of the one confirm call, made for the current connection handle. *)
C15_NumericComparisonRelaysAnswer ==
    last.op = "numeric_comparison_value" =>
        /\ last.ev = <<Ev("PinCodeVerify", last.arg.value)>>
        /\ Len(last.ctl) = 1
        /\ \E b \in BOOLEAN :
              /\ last.answer = {b}
              /\ CallArgs("aci_gap_numeric_comparison_value_confirm_yesno")
                    = {<<last.pre.handle, BoolToU8(b)>>}

C15_Witness ==
    /\ last.op = "numeric_comparison_value"
    /\ last.pre.state = GapStateConnected
    /\ last.answer = {FALSE}
    /\ CallArgs("aci_gap_numeric_comparison_value_confirm_yesno")
          = {<<connection_handle, 0>>}

(* C16: on an ATT MTU exchange response with MTU >= 3 the application gets one *)
(* UpdateMTU event whose max_packet_size is the reported MTU minus 3. *)
C16_MtuMinusHeader ==
    last.op = "att_exchange_mtu_resp" /\ last.arg.value >= 3 =>
        last.ev = <<Ev("UpdateMTU", last.arg.value - 3)>>

C16_Witness ==
    /\ last.op = "att_exchange_mtu_resp"
    /\ last.arg.value = 65535
    /\ last.ev = <<Ev("UpdateMTU", 65532)>>

(* how many calls of this name the last step made *)
CallCount(name) == Cardinality({j \in 1..Len(last.ctl) : last.ctl[j][1] = name})

(* C17: on connection-complete and connection-update-complete one parameter *)
(* update request (configured min and max, the event's latency and timeout, the *)
(* current handle) is made when the reported interval is outside [min, max] *)
(* and none when it is inside, bounds included; after connection-complete the *)
(* state is Connected, whatever the request returned. *)
C17_ParamUpdateIffOutsideRange ==
    last.op \in {"conn_complete", "conn_update_complete"} =>
        /\ IF last.arg.value < ConnIntMin \/ last.arg.value > ConnIntMax
           THEN /\ CallCount("aci_l2cap_connection_parameter_update_req") = 1
                /\ CallArgs("aci_l2cap_connection_parameter_update_req")
                      = {<<connection_handle, ConnIntMin, ConnIntMax,
                           connection_params.slave_latency,
                           connection_params.supervisor_timeout>>}
           ELSE CallCount("aci_l2cap_connection_parameter_update_req") = 0
        /\ connection_params.conn_interval = last.arg.value
        /\ last.op = "conn_complete" => state = GapStateConnected

C17_Witness ==
    /\ last.op = "conn_complete"
    /\ last.arg.value = ConnIntMax + 1
    /\ last.status = {1}
    /\ CallCount("aci_l2cap_connection_parameter_update_req") = 1
    /\ state = GapStateConnected

(* C18: once gap_thread_stop has posted KillThread the worker eventually exits *)
(* and furry_thread_join returns; from the moment the worker has dequeued *)
(* KillThread it processes no further command and writes no state. *)
C18_ShutdownStopsWorker ==
    /\ (app_pc = "join") ~> (thread = "exited")
    /\ (app_pc = "join") ~> (app_pc = "free_mutex")
    /\ [][kill_seen # -1 /\ thread' # thread =>
             thread' \in {"cs", "exited", "null"} /\ state' = state]_vars

C18_Witness ==
    /\ thread = "exited"
    /\ kill_seen = GapStateConnected
    /\ command_queue # <<>>

(* C19: an AdvStop processed in Idle leaves the state Idle, does not touch the *)
(* timer and makes no controller call; the one thing it does is to deliver *)
(* StopAdvertising to the application. *)
C19_StopInIdleOnlyDelivers ==
    last.op = "AdvStop" /\ last.pre.state = GapStateIdle =>
        /\ state = GapStateIdle
        /\ advertise_timer = last.pre.timer
        /\ last.ctl = <<>>
        /\ last.ev = <<Ev("StopAdvertising", 0)>>

C19_Witness ==
    /\ last.op = "AdvStop"
    /\ last.pre.state = GapStateIdle
    /\ last.pre.timer = "armed"
    /\ advertise_timer = "armed"
    /\ Delivered("StopAdvertising")

(* C19 as stated: an AdvStop processed in Idle is a no-op, which leaves state, *)
(* timer and controller untouched and delivers no event to the application. *)
C19_StopInIdleIsNoOp ==
    last.op = "AdvStop" /\ last.pre.state = GapStateIdle =>
        /\ state = GapStateIdle
        /\ advertise_timer = last.pre.timer
        /\ last.ctl = <<>>
        /\ last.ev = <<>>

(* C20: a pairing-complete event with status 0 delivers Connected and makes no *)
(* terminate call; with another status it makes one terminate call for the *)
(* current connection handle and delivers nothing; the state stays as it was. *)
C20_PairingCompleteConnectsOrTerminates ==
    last.op = "pairing_complete" =>
        /\ state = last.pre.state
        /\ IF last.arg.value = 0
           THEN /\ last.ev = <<Ev("Connected", 0)>>
                /\ CallCount("aci_gap_terminate") = 0
           ELSE /\ last.ev = <<>>
                /\ CallCount("aci_gap_terminate") = 1
                /\ CallArgs("aci_gap_terminate") = {<<connection_handle, 5>>}

C20_Witness ==
    /\ last.op = "pairing_complete"
    /\ last.arg.value # 0
    /\ last.pre.state = GapStateConnected
    /\ state = GapStateConnected
    /\ Called("aci_gap_terminate")

(* C21: the state mutex is held only by a thread that is inside its critical *)
(* section (the worker between acquire and release, an API call, the event *)
(* translator), and it is free when gap_thread_stop frees it. *)
C21_MutexReleasedOnEveryPath ==
    /\ state_mutex = "worker" => thread = "cs"
    /\ state_mutex = "app" => app_pc \in {"start", "stop", "kill_put", "get_state"}
    /\ state_mutex = "evt" => evt_pc = "cs"
    /\ app_pc = "free_mutex" => state_mutex = "free"

(* C22: while the state is Idle with advertising disabled (enable_adv false, *)
(* as gap_stop_advertising leaves it until gap_start_advertising is called), *)
(* no step other than gap_start_advertising takes the state out of Idle: not *)
(* a queued AdvLowPower command, not a timer expiry. *)
C22_IdleAfterStopUntilStart ==
    [][state = GapStateIdle /\ ~enable_adv /\ gap' =>
          state' = GapStateIdle \/ app_pc = "start"]_vars

(* C23: whenever the advertising timer is pending, the state is AdvFast or *)
(* AdvLowPower (never Idle, StartingAdv or Connected). *)
C23_TimerPendingOnlyWhileAdvertising ==
    advertise_timer = "armed" => state \in {GapStateAdvFast, GapStateAdvLowPower}

(* C24: a disconnect event whose handle differs from the recorded connection *)
(* handle leaves the state, the connection handle and the timer as they were. *)
C24_ForeignDisconnectChangesNothing ==
    last.op = "disconn_complete" /\ last.arg.handle # last.pre.handle =>
        /\ state = last.pre.state
        /\ connection_handle = last.pre.handle
        /\ advertise_timer = last.pre.timer

(* C25: the worker never reads the command queue before gap_init has *)
(* allocated it, and no event is delivered before the callback has been set. *)
C25_WorkerStartsAfterQueueAllocation ==
    /\ last.op # "gap_app_get_unallocated"
    /\ fault # "queue_unallocated"
    /\ last.ev # <<>> => on_event_cb

(* C26: once gap_init has returned, the recorded connection handle is the *)
(* "no connection" value set at init (0xFFFF) whenever the state is not *)
(* Connected. *)
C26_HandleIsSentinelUnlessConnected ==
    gap /\ on_event_cb /\ state # GapStateConnected =>
        connection_handle = NoConnectionHandle

====
